---------------------------- MODULE Spec2Model ----------------------------
(***************************************************************************)
(* A model of the missing-data pipeline of shxco-missingdata-specreading:  *)
(* logbook gap detection, gap filtering, periodic counts, member first     *)
(* events, short identifiers, the dataset loader and the forecasts of the  *)
(* subscriptions missing in the gaps.                                      *)
(*                                                                         *)
(* Calendar dates are modelled by their proleptic Gregorian day number     *)
(* (Python's date.toordinal()); an ISO date of the input is a triple       *)
(* <<year, month, day>> that to_datetime converts.  NaT is the absent      *)
(* timestamp: every comparison with it is false, as in pandas.             *)
(***************************************************************************)
EXTENDS Integers, Sequences, FiniteSets, TLC

VARIABLES
    pc,                     \* position of the running function
    logbook_dates,          \* generate_logbook_gaps: coverage periods, sorted by startDate
    i,                      \* generate_logbook_gaps: loop index (1-based here)
    logbook_gaps,           \* generate_logbook_gaps: the large gaps
    skipped_gaps,           \* generate_logbook_gaps: the small gaps
    logbook_events_df,      \* generate_logbook_gaps: the logbook events argument
    logbook_events_nogaps,  \* generate_logbook_gaps: events outside the large gaps
    logbooks_weekly_count,  \* generate_logbook_gaps: weekly count table
    logbook_gaps_df,        \* generate_logbook_gaps: the large gaps with their labels
    events_df,              \* exclude_gap_events: events argument
    gaps,                   \* exclude_gap_events: gaps argument
    events_nogaps_df,       \* exclude_gap_events: returned table
    events_refiltered,      \* exclude_gap_events applied to its own result
    uri,                    \* short_id: argument
    sid_result,             \* short_id: returned value
    datasets,               \* get_preprocessed_data: the names requested
    to_load,                \* get_preprocessed_data: the names the loop iterates over
    read_csv_calls,         \* get_preprocessed_data: datasets read so far, in order
    data,                   \* get_preprocessed_data: the dictionary being built
    preprocess_calls,       \* get_preprocessed_data: preprocessing functions called
    raised,                 \* get_preprocessed_data: names in the ValueError message
    csv_events,             \* the events table as read, argument of preprocess_events_data
    preprocessed_events,    \* preprocess_events_data: returned table
    members_added,          \* generate_member_events: dated events before 1942
    members_first_dates,    \* generate_member_events: first date per member
    newmember_yearly_count, \* generate_member_events: yearly count of first dates
    member_events,          \* generate_member_events: events sorted by date and type
    members_first_events,   \* first row of member_events per member
    newmember_gaps,         \* generate_newmember_subscriptions: logbook_gaps argument
    subscription_first_events,        \* first logbook subscription per member
    subscription_first_events_nogaps, \* the same outside the gaps
    newmember_subscriptions_by_year,  \* yearly count of them
    newmember_subscriptions_by_week,  \* weekly count of them
    row_dates,              \* earliest_date: the three date fields of the row
    earliest,               \* earliest_date: returned value
    weekly_subscriptions,   \* forecast_missing_subscriptions: the series argument
    forecast_gaps,          \* forecast_missing_subscriptions: logbook_gaps argument
    flags,                  \* forecast_missing_subscriptions: the keyword arguments
    growth_cap,             \* forecast_missing_subscriptions: cap of logistic growth
    prophet_model,          \* forecast_missing_subscriptions: the global model
    gap_index,              \* forecast_missing_subscriptions: position of the loop
    loop_gap,               \* forecast_missing_subscriptions: the gap of the last pass
    data_before_gap,        \* training window of the last pass
    fits,                   \* the calls of Prophet.fit, in order
    forecasted_subscriptions,  \* forecast_gap_with_prophet: the full forecast
    forecasted_near_gap,       \* forecast_gap_with_prophet: the slice near the gap
    all_forecasts,          \* forecast_missing_subscriptions: list of forecasts
    all_gap_forecasts,      \* forecast_missing_subscriptions: list of slices
    returned,               \* forecast_missing_subscriptions: returned value
    error,                  \* forecast_missing_subscriptions: exception raised
    forecast_uniq           \* plot_newsubs_weekly_forecast: de-duplicated forecast

vars == <<pc, logbook_dates, i, logbook_gaps, skipped_gaps, logbook_events_df,
          logbook_events_nogaps, logbooks_weekly_count, logbook_gaps_df,
          events_df, gaps, events_nogaps_df, events_refiltered,
          uri, sid_result,
          datasets, to_load, read_csv_calls, data, preprocess_calls, raised,
          csv_events, preprocessed_events, members_added, members_first_dates,
          newmember_yearly_count, member_events, members_first_events, newmember_gaps,
          subscription_first_events, subscription_first_events_nogaps,
          newmember_subscriptions_by_year, newmember_subscriptions_by_week,
          row_dates, earliest,
          weekly_subscriptions, forecast_gaps, flags, growth_cap, prophet_model,
          gap_index, loop_gap, data_before_gap, fits, forecasted_subscriptions,
          forecasted_near_gap, all_forecasts, all_gap_forecasts, returned, error,
          forecast_uniq>>

(***************************************************************************)
(* Bounds of the model.                                                    *)
(***************************************************************************)
MaxPeriods == 3
MaxEvents == 2
MaxGaps == 2
MaxUriLen == 4
MaxNames == 2
MaxMemberEvents == 3
MaxForecastGaps == 2

\* value of a variable the running function does not use
Unused == "unused"

Range(s) == {s[k] : k \in DOMAIN s}

SeqsUpTo(S, n) == UNION {[1..k -> S] : k \in 0..n}

(***************************************************************************)
(* Dates.                                                                  *)
(***************************************************************************)
NaT == 0

IsLeap(y) == (y % 4 = 0 /\ y % 100 # 0) \/ y % 400 = 0

DaysBeforeYear(y) ==
    (y - 1) * 365 + ((y - 1) \div 4) - ((y - 1) \div 100) + ((y - 1) \div 400)

DaysBeforeMonth(y, m) ==
    <<0, 31, 59, 90, 120, 151, 181, 212, 243, 273, 304, 334>>[m]
        + (IF m > 2 /\ IsLeap(y) THEN 1 ELSE 0)

\* pd.to_datetime of an ISO date <<y, m, d>>: the timestamp's day number
to_datetime(iso) == DaysBeforeYear(iso[1]) + DaysBeforeMonth(iso[1], iso[2]) + iso[3]

\* the year of a day number: 146097 days make 400 years
YearOf(d) ==
    LET guess == ((d * 400) \div 146097) + 1
    IN  CHOOSE y \in (guess - 1)..(guess + 1) :
            DaysBeforeYear(y) < d /\ d <= DaysBeforeYear(y + 1)

\* timedelta(days=1)
oneday == 1

\* pandas comparisons of timestamps: false when either side is NaT
DateGe(a, b) == a # NaT /\ b # NaT /\ a >= b
DateLe(a, b) == a # NaT /\ b # NaT /\ a <= b

(***************************************************************************)
(* Inputs: coverage periods of logbook-dates.json and logbook events.      *)
(***************************************************************************)
StartDates == {<<2020, 1, 1>>, <<2020, 2, 2>>, <<2020, 2, 12>>, <<2020, 2, 29>>, <<2020, 3, 1>>}
EndDates == {<<2020, 1, 14>>, <<2020, 1, 31>>, <<2020, 2, 12>>, <<2020, 3, 31>>}

CoveragePeriods ==
    {p \in [startDate : StartDates, endDate : EndDates] :
        to_datetime(p.startDate) <= to_datetime(p.endDate)}

\* the results of sort_values("startDate") on any reference list
SortedCoverage(n) ==
    {s \in SeqsUpTo(CoveragePeriods, n) :
        \A k \in 1..(Len(s) - 1) :
            to_datetime(s[k].startDate) <= to_datetime(s[k + 1].startDate)}

EventDates ==
    {to_datetime(d) : d \in {<<2020, 2, 1>>, <<2020, 2, 9>>, <<2020, 2, 29>>}} \cup {NaT}

LogbookEventTypes == {"Subscription"}

\* a table of events: rows in order, each with its index label
EventRows == [event_type : LogbookEventTypes, logbook_date : EventDates]

EventTables(n) ==
    {[k \in 1..Len(s) |-> [row |-> k, event_type |-> s[k].event_type,
                           logbook_date |-> s[k].logbook_date]] :
        s \in SeqsUpTo(EventRows, n)}

(***************************************************************************)
(* generate_logbook_gaps: the candidate interval of a consecutive pair.    *)
(***************************************************************************)
MIN_GAP_DAYS == 15

gap_start_mutant(dates, k) == to_datetime(dates[k].endDate)
gap_start(dates, k) == to_datetime(dates[k].endDate) + oneday

gap_end_mutant(dates, k) == to_datetime(dates[k + 1].startDate) + oneday
gap_end(dates, k) == to_datetime(dates[k + 1].startDate) - oneday

gap_duration(dates, k) == gap_end(dates, k) - gap_start(dates, k)

Interval(dates, k) ==
    [start |-> gap_start(dates, k), end |-> gap_end(dates, k),
     days |-> gap_duration(dates, k)]

\* Timestamp.date().isoformat(): the ISO date of a day number
isoformat(d) ==
    LET y == YearOf(d)
        n == d - DaysBeforeYear(y)
        m == CHOOSE mm \in 1..12 :
                 /\ DaysBeforeMonth(y, mm) < n
                 /\ (mm = 12 \/ n <= DaysBeforeMonth(y, mm + 1))
    IN  <<y, m, n - DaysBeforeMonth(y, m)>>

\* "%s to %s (%d days)": the three values the label is formatted from
gap_label(gap) == <<isoformat(gap.start), isoformat(gap.end), gap.days>>

IsLargeGap_mutant(days) == days >= MIN_GAP_DAYS
IsLargeGap_all(days) == days > 0
IsLargeGap(days) == days > MIN_GAP_DAYS

IsSkippedGap_mutant(days) == ~IsLargeGap(days) /\ days >= 0
IsSkippedGap(days) == ~IsLargeGap(days) /\ days > 0

(***************************************************************************)
(* exclude_gap_events: one filter pass per gap, in gap order.              *)
(***************************************************************************)
InGap_mutant(date, gap) == DateGe(date, gap.start) /\ date # gap.end /\ DateLe(date, gap.end)
InGap(date, gap) == DateGe(date, gap.start) /\ DateLe(date, gap.end)

\* a pass that deletes while it iterates: the row after a deleted row is not examined
RECURSIVE ExcludeSkipping(_, _, _)
ExcludeSkipping(events, gap, k) ==
    IF k > Len(events) THEN << >>
    ELSE IF InGap(events[k].logbook_date, gap)
         THEN (IF k + 1 <= Len(events) THEN <<events[k + 1]>> ELSE << >>)
                  \o ExcludeSkipping(events, gap, k + 2)
         ELSE <<events[k]>> \o ExcludeSkipping(events, gap, k + 1)

ExcludeOneGap_mutant(events, gap) == ExcludeSkipping(events, gap, 1)
ExcludeOneGap(events, gap) ==
    SelectSeq(events, LAMBDA e : ~InGap(e.logbook_date, gap))

RECURSIVE ExcludeFrom(_, _, _)
ExcludeFrom(events, gs, k) ==
    IF k > Len(gs) THEN events
    ELSE ExcludeFrom(ExcludeOneGap(events, gs[k]), gs, k + 1)

exclude_gap_events(events, gs) == ExcludeFrom(events, gs, 1)

(***************************************************************************)
(* Periodic counts: groupby(pd.Grouper(freq=...)).count().  Weeks end on   *)
(* Sunday (day numbers divisible by 7), years on December 31; rows with    *)
(* NaT are dropped; the table has one row per period from the first to the *)
(* last occupied period.  The rows counted are given as a set of           *)
(* <<label, date>> pairs.                                                  *)
(***************************************************************************)
WeekEnd_mutant(d) == d + (7 - (d % 7))
WeekEnd(d) == d + ((7 - (d % 7)) % 7)

YearEnd(d) == DaysBeforeYear(YearOf(d) + 1)

SetMin(S) == CHOOSE x \in S : \A y \in S : x <= y
SetMax(S) == CHOOSE x \in S : \A y \in S : x >= y

WeekSeq(b, last) == [k \in 1..(((last - b) \div 7) + 1) |-> b + (7 * (k - 1))]

RECURSIVE YearSeq(_, _)
YearSeq(b, last) == IF b > last THEN << >> ELSE <<b>> \o YearSeq(YearEnd(b + 1), last)

Dated(rows) == {r \in rows : r[2] # NaT}

WeeklyCount(rows) ==
    IF Dated(rows) = {} THEN << >>
    ELSE LET weeks == {WeekEnd(r[2]) : r \in Dated(rows)}
             bins == WeekSeq(SetMin(weeks), SetMax(weeks))
         IN  [b \in DOMAIN bins |->
                [date |-> bins[b],
                 total |-> Cardinality({r \in Dated(rows) : WeekEnd(r[2]) = bins[b]})]]

YearlyCount(rows) ==
    IF Dated(rows) = {} THEN << >>
    ELSE LET years == {YearEnd(r[2]) : r \in Dated(rows)}
             bins == YearSeq(SetMin(years), SetMax(years))
         IN  [b \in DOMAIN bins |->
                [date |-> bins[b],
                 total |-> Cardinality({r \in Dated(rows) : YearEnd(r[2]) = bins[b]})]]

\* the rows of a logbook events table, labelled by their index
LogbookDateRows(events) == {<<e.row, e.logbook_date>> : e \in Range(events)}

(***************************************************************************)
(* Strings are sequences of characters; an optional value is None or       *)
(* Some(v).                                                                *)
(***************************************************************************)
None == << >>
Some(v) == <<v>>

UriChars == {"/", "a", "b"}

\* str.rstrip("/")
RECURSIVE rstrip(_)
rstrip(str) ==
    IF str # << >> /\ str[Len(str)] = "/" THEN rstrip(SubSeq(str, 1, Len(str) - 1))
    ELSE str

\* str.split(sep), sep one character: the segments between separators
RECURSIVE SplitFrom(_, _, _, _)
SplitFrom(str, sep, k, cur) ==
    IF k > Len(str) THEN <<cur>>
    ELSE IF str[k] = sep THEN <<cur>> \o SplitFrom(str, sep, k + 1, << >>)
    ELSE SplitFrom(str, sep, k + 1, Append(cur, str[k]))

split(str, sep) == SplitFrom(str, sep, 1, << >>)

Last(s) == s[Len(s)]

short_id_mutant(u) == IF u # None THEN Some(Last(split(u[1], "/"))) ELSE None
short_id(u) == IF u # None THEN Some(Last(split(rstrip(u[1]), "/"))) ELSE None

(***************************************************************************)
(* get_preprocessed_data.                                                  *)
(***************************************************************************)
\* CSV_PATHS.keys(), in the dictionary's order
CSV_PATHS == <<"members", "books", "events", "borrow_overrides">>

DatasetNames == Range(CSV_PATHS) \cup {"foo", "bar"}

unknowns_mutant(ds) ==
    LET all == SelectSeq(ds, LAMBDA d : d \notin Range(CSV_PATHS))
    IN  IF all = << >> THEN all ELSE <<all[1]>>
unknowns(ds) == SelectSeq(ds, LAMBDA d : d \notin Range(CSV_PATHS))

NeedsEvents_mutant(ds) == "events" \in Range(ds) \/ "books" \in Range(ds)
NeedsEvents(ds) == "events" \in Range(ds)

NeedsBooks(ds) == "books" \in Range(ds)

(***************************************************************************)
(* The events table as read from the CSV file.  A date field holds an ISO  *)
(* date <<y, m, d>> or nothing; member_uris holds one URI or two joined by *)
(* ";"; source_type is the set of the sources named.                       *)
(***************************************************************************)
NoDate == << >>

MemberDate1 == <<1921, 12, 20>>
MemberDate2 == <<1922, 1, 10>>

MemberDateFields ==
    { [start_date |-> MemberDate1, subscription_purchase_date |-> NoDate,
       end_date |-> MemberDate2],
      [start_date |-> MemberDate2, subscription_purchase_date |-> NoDate,
       end_date |-> NoDate] }

UriOfA == <<"/", "a", "/">>
UriOfB == <<"/", "b", "/">>

MemberUris == {UriOfA, UriOfB \o <<";">> \o UriOfA}

\* the event types and sources of the rows: <<event_type, source_type>>
MemberEventKinds ==
    { <<"Subscription", {"Logbook"}>>, <<"Renewal", {"Logbook"}>>,
      <<"Reimbursement", {"Logbook"}>>, <<"Subscription", {"Lending Library Card"}>> }

CsvRows ==
    {[event_type |-> t[1], start_date |-> f.start_date,
      subscription_purchase_date |-> f.subscription_purchase_date,
      end_date |-> f.end_date, member_uris |-> u, source_type |-> t[2]] :
        t \in MemberEventKinds, f \in MemberDateFields, u \in MemberUris}

CsvTables(n) ==
    {[k \in 1..Len(t) |->
        [row |-> k, event_type |-> t[k].event_type, start_date |-> t[k].start_date,
         subscription_purchase_date |-> t[k].subscription_purchase_date,
         end_date |-> t[k].end_date, member_uris |-> t[k].member_uris,
         source_type |-> t[k].source_type]] :
        t \in SeqsUpTo(CsvRows, n)}

MemberGapLists ==
    { << >>,
      << [start |-> to_datetime(<<1922, 1, 1>>), end |-> to_datetime(<<1922, 1, 31>>),
          days |-> 30] >>,
      << [start |-> to_datetime(<<1921, 12, 1>>), end |-> to_datetime(<<1921, 12, 31>>),
          days |-> 30] >> }

\* events around the end of the study: dated 1941-12-31, 1942-01-01, both,
\* a year before, or undated
StudyDateFields ==
    { [start_date |-> <<1941, 12, 31>>, subscription_purchase_date |-> NoDate,
       end_date |-> NoDate],
      [start_date |-> <<1942, 1, 1>>, subscription_purchase_date |-> NoDate,
       end_date |-> NoDate],
      [start_date |-> <<1942, 1, 1>>, subscription_purchase_date |-> <<1941, 12, 31>>,
       end_date |-> <<1942, 6, 30>>],
      [start_date |-> <<1940, 12, 20>>, subscription_purchase_date |-> NoDate,
       end_date |-> <<1942, 1, 1>>],
      [start_date |-> NoDate, subscription_purchase_date |-> NoDate,
       end_date |-> NoDate] }

StudyRows ==
    {[event_type |-> "Subscription", start_date |-> f.start_date,
      subscription_purchase_date |-> f.subscription_purchase_date,
      end_date |-> f.end_date, member_uris |-> u, source_type |-> {"Logbook"}] :
        f \in StudyDateFields, u \in MemberUris}

StudyTables(n) ==
    {[k \in 1..Len(t) |->
        [row |-> k, event_type |-> t[k].event_type, start_date |-> t[k].start_date,
         subscription_purchase_date |-> t[k].subscription_purchase_date,
         end_date |-> t[k].end_date, member_uris |-> t[k].member_uris,
         source_type |-> t[k].source_type]] :
        t \in SeqsUpTo(StudyRows, n)}

(***************************************************************************)
(* generate_logbooks_events: the logbook rows of the events table with     *)
(* their logbook_date.                                                     *)
(***************************************************************************)
\* rows with or without each of the three dates; the end date is the
\* earliest of them
LogbookDateFields ==
    [start_date : {NoDate, <<1922, 1, 10>>},
     subscription_purchase_date : {NoDate, <<1922, 1, 5>>},
     end_date : {NoDate, <<1921, 12, 20>>}]

LogbookCsvRows ==
    {[event_type |-> "Subscription", start_date |-> f.start_date,
      subscription_purchase_date |-> f.subscription_purchase_date,
      end_date |-> f.end_date, member_uris |-> UriOfA, source_type |-> src] :
        f \in LogbookDateFields, src \in {{"Logbook"}, {"Lending Library Card"}}}

LogbookCsvTables(n) ==
    {[k \in 1..Len(t) |->
        [row |-> k, event_type |-> t[k].event_type, start_date |-> t[k].start_date,
         subscription_purchase_date |-> t[k].subscription_purchase_date,
         end_date |-> t[k].end_date, member_uris |-> t[k].member_uris,
         source_type |-> t[k].source_type]] :
        t \in SeqsUpTo(LogbookCsvRows, n)}

\* pd.to_datetime of a column: a missing value gives NaT
to_datetime_column(val) == IF val = NoDate THEN NaT ELSE to_datetime(val)

logbook_date_mutant(e) ==
    IF to_datetime_column(e.start_date) # NaT
    THEN to_datetime_column(e.start_date)
    ELSE to_datetime_column(e.subscription_purchase_date)

\* row.subscription_purchase_date if pd.notna(row.subscription_purchase_date)
\* else row.start_date, on the converted columns
logbook_date(e) ==
    IF to_datetime_column(e.subscription_purchase_date) # NaT
    THEN to_datetime_column(e.subscription_purchase_date)
    ELSE to_datetime_column(e.start_date)

generate_logbooks_events(events) ==
    LET logbook == SelectSeq(events, LAMBDA e : "Logbook" \in e.source_type)
    IN  [k \in DOMAIN logbook |->
            [row |-> logbook[k].row, event_type |-> logbook[k].event_type,
             start_date |-> to_datetime_column(logbook[k].start_date),
             end_date |-> logbook[k].end_date,
             subscription_purchase_date |->
                 to_datetime_column(logbook[k].subscription_purchase_date),
             member_uris |-> logbook[k].member_uris,
             source_type |-> logbook[k].source_type,
             logbook_date |-> logbook_date(logbook[k])]]

(***************************************************************************)
(* preprocess_events_data.                                                 *)
(***************************************************************************)
\* the number of columns of member_uris.str.split(";", expand=True)
SplitColumns(events) ==
    IF events = << >> THEN 0
    ELSE SetMax({Len(split(events[k].member_uris, ";")) : k \in DOMAIN events})

\* assigning the split to the two columns needs exactly two columns
SplitAssignable(events) == SplitColumns(events) = 2

first_member_uri(e) == Some(split(e.member_uris, ";")[1])

second_member_uri(e) ==
    IF Len(split(e.member_uris, ";")) >= 2 THEN Some(split(e.member_uris, ";")[2]) ELSE None

preprocess_events_data(events) ==
    [k \in DOMAIN events |->
        [row |-> events[k].row, event_type |-> events[k].event_type,
         start_date |-> events[k].start_date,
         subscription_purchase_date |-> events[k].subscription_purchase_date,
         end_date |-> events[k].end_date, member_uris |-> events[k].member_uris,
         source_type |-> events[k].source_type,
         first_member_uri |-> first_member_uri(events[k]),
         second_member_uri |-> second_member_uri(events[k]),
         member_id |-> short_id(first_member_uri(events[k]))]]

(***************************************************************************)
(* earliest_date and generate_member_events.                               *)
(***************************************************************************)
\* order of ISO date strings
IsoLess(a, b) ==
    \/ a[1] < b[1]
    \/ a[1] = b[1] /\ a[2] < b[2]
    \/ a[1] = b[1] /\ a[2] = b[2] /\ a[3] < b[3]

earliest_date_mutant(e) ==
    LET dates == SelectSeq(<<e.start_date, e.subscription_purchase_date, e.end_date>>,
                           LAMBDA val : val # NoDate)
    IN  IF dates = << >> THEN NoDate ELSE dates[1]

\* min() of the values present, which are the strings of the CSV file
earliest_date(e) ==
    LET dates == SelectSeq(<<e.start_date, e.subscription_purchase_date, e.end_date>>,
                           LAMBDA val : val # NoDate)
    IN  IF dates = << >> THEN NoDate
        ELSE dates[CHOOSE k \in DOMAIN dates :
                    /\ \A j \in DOMAIN dates : ~IsoLess(dates[j], dates[k])
                    /\ \A j \in 1..(k - 1) : IsoLess(dates[k], dates[j])]

\* pd.to_datetime(errors="coerce")
to_datetime_coerce(val) == IF val = NoDate THEN NaT ELSE to_datetime(val)

\* datetime(1942, 1, 1)
EndOfStudy == to_datetime(<<1942, 1, 1>>)

MembersAdded_mutant(events) ==
    LET member_dates ==
            [k \in DOMAIN events |->
                [row |-> events[k].row, event_type |-> events[k].event_type,
                 member_id |-> events[k].member_id,
                 date |-> to_datetime_coerce(earliest_date(events[k])),
                 source_type |-> events[k].source_type]]
    IN  SelectSeq(member_dates, LAMBDA e : e.date # NaT /\ e.date <= EndOfStudy)

\* member_dates[[...]].dropna(subset=["date"]), then date < 1942-01-01
MembersAdded(events) ==
    LET member_dates ==
            [k \in DOMAIN events |->
                [row |-> events[k].row, event_type |-> events[k].event_type,
                 member_id |-> events[k].member_id,
                 date |-> to_datetime_coerce(earliest_date(events[k])),
                 source_type |-> events[k].source_type]]
    IN  SelectSeq(member_dates, LAMBDA e : e.date # NaT /\ e.date < EndOfStudy)

\* groupby("member_id").first(): the first row of each member, in table order
\* (no column of these tables holds a missing value)
FirstPerMember(table) ==
    {table[k] : k \in {n \in DOMAIN table :
        \A j \in 1..(n - 1) : table[j].member_id # table[n].member_id}}

MemberDateRows(rows) == {<<r.member_id, r.date>> : r \in rows}

\* the categories of the ordered CategoricalDtype
EventTypeOrder ==
    <<"Subscription", "Renewal", "Separate Payment", "Borrow", "Purchase",
      "Supplement", "Request", "Gift", "Crossed out", "Reimbursement">>

TypeCode(t) == CHOOSE k \in DOMAIN EventTypeOrder : EventTypeOrder[k] = t

\* sort_values(by=["date", "event_type"]): the order of two rows
SortsBefore_mutant(a, b) == a.date < b.date
SortsBefore(a, b) ==
    \/ a.date < b.date
    \/ a.date = b.date /\ TypeCode(a.event_type) < TypeCode(b.event_type)

\* stable insertion of a row after the rows that do not sort after it
InsertSorted(sorted, e) ==
    LET later == {k \in DOMAIN sorted : SortsBefore(e, sorted[k])}
        at == IF later = {} THEN Len(sorted) + 1 ELSE SetMin(later)
    IN  SubSeq(sorted, 1, at - 1) \o <<e>> \o SubSeq(sorted, at, Len(sorted))

RECURSIVE SortFrom(_, _, _)
SortFrom(table, k, sorted) ==
    IF k > Len(table) THEN sorted
    ELSE SortFrom(table, k + 1, InsertSorted(sorted, table[k]))

sort_values(table) == SortFrom(table, 1, << >>)

(***************************************************************************)
(* generate_newmember_subscriptions.                                       *)
(***************************************************************************)
IsLogbookSubscription(e) ==
    /\ "Logbook" \in e.source_type
    /\ e.event_type \in {"Subscription", "Renewal"}

SubscriptionFirstEvents(events) ==
    FirstPerMember(SelectSeq(events, IsLogbookSubscription))

OutsideGaps(rows, gs) ==
    {r \in rows : \A g \in DOMAIN gs : ~InGap(r.date, gs[g])}

FirstEventsNoGaps_mutant(events, gs) ==
    FirstPerMember(SelectSeq(events,
        LAMBDA e : IsLogbookSubscription(e) /\ e \in OutsideGaps({e}, gs)))

\* the first events of the members, then the gap filter
FirstEventsNoGaps(events, gs) == OutsideGaps(SubscriptionFirstEvents(events), gs)

(***************************************************************************)
(* Forecasting: prepare_data_for_prophet, forecast_gap_with_prophet and    *)
(* forecast_missing_subscriptions.  A table is its rows together with the  *)
(* values of its floor and cap columns (None: no such column).  Prophet is *)
(* modelled by the table a model is fit on, the dates it is asked to       *)
(* predict and the model that predicts them; the predicted numbers are not *)
(* modelled.                                                               *)
(***************************************************************************)
\* the cutoff the caller passes: pd.to_datetime(date(1932, 9, 27))
post1932_date == to_datetime(<<1932, 9, 27>>)

SeriesRow(iso, total) == [date |-> to_datetime(iso), total |-> total]

Series(rows) == [rows |-> rows, floor |-> None, cap |-> None]

ForecastSeries ==
    { Series(<<SeriesRow(<<2020, 1, 19>>, 1), SeriesRow(<<2020, 1, 26>>, 2),
               SeriesRow(<<2020, 3, 8>>, 3)>>),
      Series(<<SeriesRow(<<1932, 9, 25>>, 2), SeriesRow(<<1932, 9, 27>>, 1),
               SeriesRow(<<1932, 10, 2>>, 1)>>),
      Series(<<SeriesRow(<<1932, 9, 18>>, 1), SeriesRow(<<1932, 9, 25>>, 1)>>) }

GapRecord(s, e) ==
    [start |-> to_datetime(s), end |-> to_datetime(e),
     days |-> to_datetime(e) - to_datetime(s)]

ForecastGapRecords ==
    { GapRecord(<<2020, 2, 1>>, <<2020, 2, 29>>),
      GapRecord(<<2020, 2, 2>>, <<2020, 2, 18>>),
      GapRecord(<<1936, 1, 1>>, <<1936, 1, 31>>),
      GapRecord(<<1935, 12, 1>>, <<1935, 12, 31>>),
      GapRecord(<<1932, 10, 2>>, <<1932, 10, 22>>),
      GapRecord(<<1932, 9, 1>>, <<1932, 9, 20>>) }

\* lists of gaps in the order generate_logbook_gaps finds them
ForecastGapLists(n) ==
    {l \in SeqsUpTo(ForecastGapRecords, n) :
        \A k \in 1..(Len(l) - 1) : l[k].start < l[k + 1].start}

\* the keyword arguments of forecast_missing_subscriptions
ForecastFlags ==
    [model_weekly : BOOLEAN, model_monthly : BOOLEAN, model_daily : BOOLEAN,
     train_all_data : BOOLEAN, return_prophet_model : BOOLEAN,
     return_all_gap_forecasts : BOOLEAN, use_weekly_growth_cap : BOOLEAN,
     use_total_growth_cap : BOOLEAN]

\* timedelta(days=30 * 6) if model_monthly else timedelta(days=7)
time_duration(f) == IF f.model_monthly THEN 30 * 6 ELSE 7

\* weekly_subscriptions.total.max() if use_weekly_growth_cap else None
GrowthCap(ws, f) ==
    IF f.use_weekly_growth_cap
    THEN Some(SetMax({ws.rows[k].total : k \in DOMAIN ws.rows}))
    ELSE None

\* table["floor"] = 0; table["cap"] = growth_cap
WithCap(table, cap) == [rows |-> table.rows, floor |-> Some(0), cap |-> Some(cap)]

\* rename(columns={"date": "ds", "total": "y"})
Renamed(table) ==
    [rows |-> [k \in DOMAIN table.rows |->
                  [ds |-> table.rows[k].date, y |-> table.rows[k].total]],
     floor |-> table.floor, cap |-> table.cap]

prepare_data_for_prophet_mutant(ws, gap_start_date) ==
    LET before == SelectSeq(ws.rows, LAMBDA r : r.date < gap_start_date)
        kept == IF YearOf(gap_start_date) >= 1936
                THEN SelectSeq(before, LAMBDA r : r.date > post1932_date)
                ELSE before
    IN  Renamed([rows |-> kept, floor |-> ws.floor, cap |-> ws.cap])

prepare_data_for_prophet(ws, gap_start_date) ==
    LET before == SelectSeq(ws.rows, LAMBDA r : r.date < gap_start_date)
        kept == IF YearOf(gap_start_date) >= 1936
                THEN SelectSeq(before, LAMBDA r : r.date >= post1932_date)
                ELSE before
    IN  Renamed([rows |-> kept, floor |-> ws.floor, cap |-> ws.cap])

FitFails_mutant(df, growth) ==
    growth = "logistic"
        /\ (IF df.cap = None \/ df.cap = Some(None) THEN TRUE
            ELSE df.cap[1][1] <= df.floor[1])

\* Prophet.fit raises on fewer than two rows and, with logistic growth, on a
\* cap column that is missing, holds no number or is not above the floor
FitFails(df, growth) ==
    \/ Len(df.rows) < 2
    \/ growth = "logistic"
        /\ (IF df.cap = None \/ df.cap = Some(None) THEN TRUE
            ELSE df.cap[1][1] <= df.floor[1])

\* the models: the one fit on the whole series and the one of each gap
GlobalModel == [name |-> "global", pass |-> 0]

GapModel(k) == [name |-> "gap", pass |-> k]

\* what one call of Prophet.fit was given
FitRecord(model, df, growth) ==
    [model |-> model, growth |-> growth, floor |-> df.floor, cap |-> df.cap,
     history |-> {df.rows[k].ds : k \in DOMAIN df.rows}]

\* math.ceil(a / b)
Ceil(a, b) == (a + b - 1) \div b

\* the flags are tested in turn and the last one set decides
forecast_duration_mutant(g, f) ==
    IF f.model_daily THEN g.days
    ELSE IF f.model_monthly THEN Ceil(g.days, 30) + 2
    ELSE (g.days \div 7) + 7

forecast_duration(g, f) ==
    IF f.model_daily THEN g.days
    ELSE IF f.model_monthly THEN Ceil(g.days, 30) + 2
    ELSE Ceil(g.days, 7) + 7

freq(f) == IF f.model_daily THEN "D" ELSE IF f.model_monthly THEN "MS" ELSE "W"

\* future_subscriptions is assigned only under one of the three flags
FutureBound(f) == f.model_weekly \/ f.model_monthly \/ f.model_daily

\* the first day of the k-th month after the month of a day
MonthStartAfter(last, k) ==
    LET ymd == isoformat(last)
        idx == (ymd[2] - 1) + k
    IN  to_datetime(<<ymd[1] + (idx \div 12), (idx % 12) + 1, 1>>)

\* the k-th date of the frequency after the last date of the history
FutureDate(last, fr, k) ==
    IF fr = "D" THEN last + k
    ELSE IF fr = "MS" THEN MonthStartAfter(last, k)
    ELSE WeekEnd(last + 1) + (7 * (k - 1))

RECURSIVE SortedDates(_)
SortedDates(S) ==
    IF S = {} THEN << >> ELSE <<SetMin(S)>> \o SortedDates(S \ {SetMin(S)})

\* Prophet.make_future_dataframe(periods, freq): the dates of the history,
\* then the first periods dates of the frequency after the last of them
\* (a model without history has no dates to extend)
make_future_dataframe(history, periods, fr) ==
    IF history = {} THEN << >>
    ELSE SortedDates(history)
            \o [k \in 1..periods |-> FutureDate(SetMax(history), fr, k)]

\* Prophet.predict: one row per date asked for, by the model asked
predict(model, dates) == [k \in DOMAIN dates |-> [ds |-> dates[k], model |-> model]]

\* the rows of a forecast near the gap
forecast_near_gap(forecast, g, td) ==
    SelectSeq(forecast, LAMBDA r : r.ds > g.start - td /\ r.ds < g.end + td)

\* pd.concat of a list of tables
RECURSIVE concat(_)
concat(tables) == IF tables = << >> THEN << >> ELSE tables[1] \o concat(Tail(tables))

(***************************************************************************)
(* generate_logbook_gaps as a process.                                     *)
(***************************************************************************)
FilterIdle ==
    /\ events_df = Unused
    /\ gaps = Unused
    /\ events_nogaps_df = Unused
    /\ events_refiltered = Unused

GapsIdle ==
    /\ logbook_dates = Unused
    /\ i = 0
    /\ logbook_gaps = Unused
    /\ skipped_gaps = Unused
    /\ logbook_events_df = Unused
    /\ logbook_events_nogaps = Unused
    /\ logbooks_weekly_count = Unused
    /\ logbook_gaps_df = Unused

SidIdle ==
    /\ uri = Unused
    /\ sid_result = Unused

LoaderIdle ==
    /\ datasets = Unused
    /\ to_load = Unused
    /\ read_csv_calls = Unused
    /\ data = Unused
    /\ preprocess_calls = Unused
    /\ raised = Unused

MembersIdle ==
    /\ csv_events = Unused
    /\ preprocessed_events = Unused
    /\ members_added = Unused
    /\ members_first_dates = Unused
    /\ newmember_yearly_count = Unused
    /\ member_events = Unused
    /\ members_first_events = Unused
    /\ newmember_gaps = Unused
    /\ subscription_first_events = Unused
    /\ subscription_first_events_nogaps = Unused
    /\ newmember_subscriptions_by_year = Unused
    /\ newmember_subscriptions_by_week = Unused

PlotIdle == forecast_uniq = Unused

EarliestIdle ==
    /\ row_dates = Unused
    /\ earliest = Unused

ForecastIdle ==
    /\ weekly_subscriptions = Unused
    /\ forecast_gaps = Unused
    /\ flags = Unused
    /\ growth_cap = Unused
    /\ prophet_model = Unused
    /\ gap_index = 0
    /\ loop_gap = Unused
    /\ data_before_gap = Unused
    /\ fits = Unused
    /\ forecasted_subscriptions = Unused
    /\ forecasted_near_gap = Unused
    /\ all_forecasts = Unused
    /\ all_gap_forecasts = Unused
    /\ returned = Unused
    /\ error = Unused

EarliestVars == <<row_dates, earliest>>

PlotVars == <<forecast_uniq>>

ForecastVars == <<weekly_subscriptions, forecast_gaps, flags, growth_cap, prophet_model,
                  gap_index, loop_gap, data_before_gap, fits, forecasted_subscriptions,
                  forecasted_near_gap, all_forecasts, all_gap_forecasts, returned, error>>

FilterVars == <<events_df, gaps, events_nogaps_df, events_refiltered>>

MembersVars == <<csv_events, preprocessed_events, members_added, members_first_dates,
                 newmember_yearly_count, member_events, members_first_events,
                 newmember_gaps, subscription_first_events,
                 subscription_first_events_nogaps, newmember_subscriptions_by_year,
                 newmember_subscriptions_by_week>>

SidVars == <<uri, sid_result>>

LoaderVars == <<datasets, to_load, read_csv_calls, data, preprocess_calls, raised>>

GapsVars == <<logbook_dates, i, logbook_gaps, skipped_gaps, logbook_events_df,
              logbook_events_nogaps, logbooks_weekly_count, logbook_gaps_df>>

NotGapsVars == <<FilterVars, SidVars, LoaderVars, MembersVars, EarliestVars, ForecastVars, PlotVars>>
NotFilterVars == <<GapsVars, SidVars, LoaderVars, MembersVars, EarliestVars, ForecastVars, PlotVars>>
NotSidVars == <<GapsVars, FilterVars, LoaderVars, MembersVars, EarliestVars, ForecastVars, PlotVars>>
NotLoaderVars == <<GapsVars, FilterVars, SidVars, MembersVars, EarliestVars, ForecastVars, PlotVars>>
NotMembersVars == <<GapsVars, FilterVars, SidVars, LoaderVars, EarliestVars, ForecastVars, PlotVars>>
NotEarliestVars == <<GapsVars, FilterVars, SidVars, LoaderVars, MembersVars, ForecastVars, PlotVars>>
NotForecastVars == <<GapsVars, FilterVars, SidVars, LoaderVars, MembersVars, EarliestVars, PlotVars>>

\* the state after the reference list is read and sorted and the lists are empty
Init ==
    /\ pc = "gap_loop"
    /\ logbook_dates \in SortedCoverage(MaxPeriods)
    /\ i = 1
    /\ logbook_gaps = << >>
    /\ skipped_gaps = << >>
    /\ logbook_events_df = Unused
    /\ logbook_events_nogaps = Unused
    /\ logbooks_weekly_count = Unused
    /\ logbook_gaps_df = Unused
    /\ FilterIdle /\ SidIdle /\ LoaderIdle /\ MembersIdle /\ EarliestIdle /\ ForecastIdle /\ PlotIdle

\* one iteration of the loop over consecutive pairs
GapLoopStep ==
    /\ pc = "gap_loop"
    /\ i <= Len(logbook_dates) - 1
    /\ LET interval == Interval(logbook_dates, i)
       IN  /\ logbook_gaps' = IF IsLargeGap(interval.days)
                              THEN Append(logbook_gaps, interval)
                              ELSE logbook_gaps
           /\ skipped_gaps' = IF IsSkippedGap(interval.days)
                              THEN Append(skipped_gaps, interval)
                              ELSE skipped_gaps
    /\ i' = i + 1
    /\ UNCHANGED <<pc, logbook_dates, logbook_events_df, logbook_events_nogaps,
                   logbooks_weekly_count, logbook_gaps_df, NotGapsVars>>

\* the loop ends; the events argument is filtered by the large gaps
GapLoopExit ==
    /\ pc = "gap_loop"
    /\ i > Len(logbook_dates) - 1
    /\ \E ev \in EventTables(MaxEvents) :
        /\ logbook_events_df' = ev
        /\ logbook_events_nogaps' = exclude_gap_events(ev, logbook_gaps)
    /\ pc' = "gap_count"
    /\ UNCHANGED <<logbook_dates, i, logbook_gaps, skipped_gaps,
                   logbooks_weekly_count, logbook_gaps_df, NotGapsVars>>

\* the weekly count of the remaining events
GapWeeklyCount ==
    /\ pc = "gap_count"
    /\ logbooks_weekly_count' = WeeklyCount(LogbookDateRows(logbook_events_nogaps))
    /\ pc' = "gap_label"
    /\ UNCHANGED <<logbook_dates, i, logbook_gaps, skipped_gaps, logbook_events_df,
                   logbook_events_nogaps, logbook_gaps_df, NotGapsVars>>

\* the gaps as a table with the gap_label column; the four results are returned
GapLabelReturn ==
    /\ pc = "gap_label"
    /\ logbook_gaps_df' =
           [n \in DOMAIN logbook_gaps |->
               [start |-> logbook_gaps[n].start, end |-> logbook_gaps[n].end,
                days |-> logbook_gaps[n].days, gap_label |-> gap_label(logbook_gaps[n])]]
    /\ pc' = "gap_done"
    /\ UNCHANGED <<logbook_dates, i, logbook_gaps, skipped_gaps, logbook_events_df,
                   logbook_events_nogaps, logbooks_weekly_count, NotGapsVars>>

\* with no large gap the table of gaps has no column: apply returns a table
\* without columns and its assignment to the gap_label column may raise
GapLabelRaise ==
    /\ pc = "gap_label"
    /\ logbook_gaps = << >>
    /\ pc' = "gap_raised"
    /\ UNCHANGED <<GapsVars, NotGapsVars>>

Next == GapLoopStep \/ GapLoopExit \/ GapWeeklyCount \/ GapLabelReturn \/ GapLabelRaise

Spec == Init /\ [][Next]_vars

(***************************************************************************)
(* exclude_gap_events called on its own, then on its own result.           *)
(***************************************************************************)
GapBoundDates == {to_datetime(d) : d \in {<<2020, 2, 1>>, <<2020, 2, 5>>, <<2020, 2, 29>>}}

GapRecords ==
    {[start |-> a, end |-> b, days |-> b - a] : a \in GapBoundDates, b \in GapBoundDates}

InitFilter ==
    /\ pc = "filter_call"
    /\ events_df \in EventTables(MaxEvents)
    /\ gaps \in SeqsUpTo(GapRecords, MaxGaps)
    /\ events_nogaps_df = Unused
    /\ events_refiltered = Unused
    /\ GapsIdle /\ SidIdle /\ LoaderIdle /\ MembersIdle /\ EarliestIdle /\ ForecastIdle /\ PlotIdle

FilterCall ==
    /\ pc = "filter_call"
    /\ events_nogaps_df' = exclude_gap_events(events_df, gaps)
    /\ pc' = "filter_returned"
    /\ UNCHANGED <<events_df, gaps, events_refiltered, NotFilterVars>>

FilterAgain ==
    /\ pc = "filter_returned"
    /\ events_refiltered' = exclude_gap_events(events_nogaps_df, gaps)
    /\ pc' = "filter_done"
    /\ UNCHANGED <<events_df, gaps, events_nogaps_df, NotFilterVars>>

NextFilter == FilterCall \/ FilterAgain

SpecFilter == InitFilter /\ [][NextFilter]_vars

(***************************************************************************)
(* short_id applied to an argument.                                        *)
(***************************************************************************)
UriInputs == {None} \cup {Some(str) : str \in SeqsUpTo(UriChars, MaxUriLen)}

InitSid ==
    /\ pc = "sid_call"
    /\ uri \in UriInputs
    /\ sid_result = Unused
    /\ GapsIdle /\ FilterIdle /\ LoaderIdle /\ MembersIdle /\ EarliestIdle /\ ForecastIdle /\ PlotIdle

ShortIdCall ==
    /\ pc = "sid_call"
    /\ sid_result' = short_id(uri)
    /\ pc' = "sid_done"
    /\ UNCHANGED <<uri, NotSidVars>>

NextSid == ShortIdCall

SpecSid == InitSid /\ [][NextSid]_vars

(***************************************************************************)
(* get_preprocessed_data as a process: the check of the names, one         *)
(* read_csv per name, the preprocessing, the return.                       *)
(***************************************************************************)
InitLoader ==
    /\ pc = "ld_call"
    /\ datasets \in SeqsUpTo(DatasetNames, MaxNames)
    /\ to_load = << >>
    /\ read_csv_calls = << >>
    /\ data = {}
    /\ preprocess_calls = << >>
    /\ raised = None
    /\ GapsIdle /\ FilterIdle /\ SidIdle /\ MembersIdle /\ EarliestIdle /\ ForecastIdle /\ PlotIdle

\* no names given: every dataset of CSV_PATHS is loaded
LoaderDefault ==
    /\ pc = "ld_call"
    /\ Len(datasets) = 0
    /\ to_load' = CSV_PATHS
    /\ pc' = "ld_read"
    /\ UNCHANGED <<datasets, read_csv_calls, data, preprocess_calls, raised, NotLoaderVars>>

\* names given and all known
LoaderNamesKnown ==
    /\ pc = "ld_call"
    /\ Len(datasets) # 0
    /\ Len(unknowns(datasets)) = 0
    /\ to_load' = datasets
    /\ pc' = "ld_read"
    /\ UNCHANGED <<datasets, read_csv_calls, data, preprocess_calls, raised, NotLoaderVars>>

\* names given and some unknown: ValueError naming them
LoaderRaise ==
    /\ pc = "ld_call"
    /\ Len(datasets) # 0
    /\ Len(unknowns(datasets)) # 0
    /\ raised' = Some(unknowns(datasets))
    /\ pc' = "ld_raised"
    /\ UNCHANGED <<datasets, to_load, read_csv_calls, data, preprocess_calls, NotLoaderVars>>

\* one iteration of the loading loop
LoaderRead ==
    /\ pc = "ld_read"
    /\ Len(read_csv_calls) < Len(to_load)
    /\ LET dataset == to_load[Len(read_csv_calls) + 1]
       IN  /\ read_csv_calls' = Append(read_csv_calls, dataset)
           /\ data' = data \cup {dataset}
    /\ UNCHANGED <<pc, datasets, to_load, preprocess_calls, raised, NotLoaderVars>>

\* the loop is over: preprocess what is present, return the dictionary
LoaderPreprocessReturn ==
    /\ pc = "ld_read"
    /\ Len(read_csv_calls) = Len(to_load)
    /\ preprocess_calls' =
           (IF NeedsEvents(to_load) THEN <<"preprocess_events_data">> ELSE << >>)
           \o (IF NeedsBooks(to_load) THEN <<"preprocess_books_data">> ELSE << >>)
    /\ pc' = "ld_returned"
    /\ UNCHANGED <<datasets, to_load, read_csv_calls, data, raised, NotLoaderVars>>

NextLoader ==
    \/ LoaderDefault
    \/ LoaderNamesKnown
    \/ LoaderRaise
    \/ LoaderRead
    \/ LoaderPreprocessReturn

SpecLoader == InitLoader /\ [][NextLoader]_vars

(***************************************************************************)
(* The member pipeline as a process: preprocess_events_data,               *)
(* generate_member_events, the first event of each member,                 *)
(* generate_newmember_subscriptions.  generate_member_events names its     *)
(* first step process_events_data, which the module does not define; the   *)
(* step is preprocess_events_data, which the script runs inline before     *)
(* the same statements.                                                    *)
(***************************************************************************)
InitMembers ==
    /\ pc = "m_call"
    /\ csv_events \in CsvTables(MaxMemberEvents)
    /\ preprocessed_events = Unused
    /\ members_added = Unused
    /\ members_first_dates = Unused
    /\ newmember_yearly_count = Unused
    /\ member_events = Unused
    /\ members_first_events = Unused
    /\ newmember_gaps = Unused
    /\ subscription_first_events = Unused
    /\ subscription_first_events_nogaps = Unused
    /\ newmember_subscriptions_by_year = Unused
    /\ newmember_subscriptions_by_week = Unused
    /\ GapsIdle /\ FilterIdle /\ SidIdle /\ LoaderIdle /\ EarliestIdle /\ ForecastIdle /\ PlotIdle

\* the columns are assigned on events_df itself, which is then returned: the
\* caller's table and the returned one are the same object
PreprocessEvents ==
    /\ pc = "m_call"
    /\ SplitAssignable(csv_events)
    /\ csv_events' = preprocess_events_data(csv_events)
    /\ preprocessed_events' = preprocess_events_data(csv_events)
    /\ pc' = "m_preprocessed"
    /\ UNCHANGED <<members_added, members_first_dates,
                   newmember_yearly_count, member_events, members_first_events,
                   newmember_gaps, subscription_first_events,
                   subscription_first_events_nogaps, newmember_subscriptions_by_year,
                   newmember_subscriptions_by_week, NotMembersVars>>

\* the split does not give two columns: the assignment raises ValueError
PreprocessEventsRaise ==
    /\ pc = "m_call"
    /\ ~SplitAssignable(csv_events)
    /\ pc' = "m_raised"
    /\ UNCHANGED <<MembersVars, NotMembersVars>>

GenerateMemberEvents ==
    /\ pc = "m_preprocessed"
    /\ LET added == MembersAdded(preprocessed_events)
           members_grouped_first == FirstPerMember(added)
       IN  /\ members_added' = added
           /\ members_first_dates' =
                  {[row |-> r.row, member_id |-> r.member_id, date |-> r.date] :
                      r \in members_grouped_first}
           /\ newmember_yearly_count' = YearlyCount(MemberDateRows(members_grouped_first))
           /\ member_events' = sort_values(added)
    /\ pc' = "m_events"
    /\ UNCHANGED <<csv_events, preprocessed_events, members_first_events,
                   newmember_gaps, subscription_first_events,
                   subscription_first_events_nogaps, newmember_subscriptions_by_year,
                   newmember_subscriptions_by_week, NotMembersVars>>

MembersFirstEvents ==
    /\ pc = "m_events"
    /\ members_first_events' = FirstPerMember(member_events)
    /\ pc' = "m_first"
    /\ UNCHANGED <<csv_events, preprocessed_events, members_added, members_first_dates,
                   newmember_yearly_count, member_events,
                   newmember_gaps, subscription_first_events,
                   subscription_first_events_nogaps, newmember_subscriptions_by_year,
                   newmember_subscriptions_by_week, NotMembersVars>>

GenerateNewmemberSubscriptions ==
    /\ pc = "m_first"
    /\ \E gs \in MemberGapLists :
        LET first_events == SubscriptionFirstEvents(member_events)
            nogaps == FirstEventsNoGaps(member_events, gs)
        IN  /\ newmember_gaps' = gs
            /\ subscription_first_events' = first_events
            /\ subscription_first_events_nogaps' = nogaps
            /\ newmember_subscriptions_by_year' = YearlyCount(MemberDateRows(nogaps))
            /\ newmember_subscriptions_by_week' = WeeklyCount(MemberDateRows(nogaps))
    /\ pc' = "m_done"
    /\ UNCHANGED <<csv_events, preprocessed_events, members_added, members_first_dates,
                   newmember_yearly_count, member_events, members_first_events,
                   NotMembersVars>>

NextMembers ==
    \/ PreprocessEvents
    \/ PreprocessEventsRaise
    \/ GenerateMemberEvents
    \/ MembersFirstEvents
    \/ GenerateNewmemberSubscriptions

SpecMembers == InitMembers /\ [][NextMembers]_vars

\* the same pipeline on events around the end of the study
InitStudy ==
    /\ pc = "m_call"
    /\ csv_events \in StudyTables(MaxMemberEvents)
    /\ preprocessed_events = Unused
    /\ members_added = Unused
    /\ members_first_dates = Unused
    /\ newmember_yearly_count = Unused
    /\ member_events = Unused
    /\ members_first_events = Unused
    /\ newmember_gaps = Unused
    /\ subscription_first_events = Unused
    /\ subscription_first_events_nogaps = Unused
    /\ newmember_subscriptions_by_year = Unused
    /\ newmember_subscriptions_by_week = Unused
    /\ GapsIdle /\ FilterIdle /\ SidIdle /\ LoaderIdle /\ EarliestIdle /\ ForecastIdle /\ PlotIdle

SpecStudy == InitStudy /\ [][NextMembers]_vars

(***************************************************************************)
(* generate_logbooks_events as a process.                                  *)
(***************************************************************************)
InitLogbook ==
    /\ pc = "lb_call"
    /\ csv_events \in LogbookCsvTables(MaxEvents)
    /\ preprocessed_events = Unused
    /\ members_added = Unused
    /\ members_first_dates = Unused
    /\ newmember_yearly_count = Unused
    /\ member_events = Unused
    /\ members_first_events = Unused
    /\ newmember_gaps = Unused
    /\ subscription_first_events = Unused
    /\ subscription_first_events_nogaps = Unused
    /\ newmember_subscriptions_by_year = Unused
    /\ newmember_subscriptions_by_week = Unused
    /\ GapsIdle /\ FilterIdle /\ SidIdle /\ LoaderIdle /\ EarliestIdle /\ ForecastIdle /\ PlotIdle

GenerateLogbooksEvents ==
    /\ pc = "lb_call"
    /\ logbook_events_df' = generate_logbooks_events(csv_events)
    /\ pc' = "lb_returned"
    /\ UNCHANGED <<logbook_dates, i, logbook_gaps, skipped_gaps, logbook_events_nogaps,
                   logbooks_weekly_count, logbook_gaps_df, FilterVars, SidVars,
                   LoaderVars, MembersVars, EarliestVars, ForecastVars, PlotVars>>

NextLogbook == GenerateLogbooksEvents

SpecLogbook == InitLogbook /\ [][NextLogbook]_vars

(***************************************************************************)
(* earliest_date applied to one row.                                       *)
(***************************************************************************)
RowDateValues == {NoDate, <<1921, 12, 5>>, <<1921, 12, 20>>, <<1922, 1, 10>>, <<1922, 1, 11>>}

InitEarliest ==
    /\ pc = "ed_call"
    /\ row_dates \in [start_date : RowDateValues,
                      subscription_purchase_date : RowDateValues,
                      end_date : RowDateValues]
    /\ earliest = Unused
    /\ GapsIdle /\ FilterIdle /\ SidIdle /\ LoaderIdle /\ MembersIdle /\ ForecastIdle /\ PlotIdle

EarliestDateCall ==
    /\ pc = "ed_call"
    /\ earliest' = earliest_date(row_dates)
    /\ pc' = "ed_returned"
    /\ UNCHANGED <<row_dates, NotEarliestVars>>

NextEarliest == EarliestDateCall

SpecEarliest == InitEarliest /\ [][NextEarliest]_vars

(***************************************************************************)
(* plot_newsubs_weekly_forecast: DataFrame.drop_duplicates(keep='first')   *)
(* with no subset keeps the first of the rows that are equal in every      *)
(* column, in table order.  A row of a forecast holds its timestamp and    *)
(* the values predicted by the model of one fit.                           *)
(***************************************************************************)
drop_duplicates(df) ==
    LET firsts == {k \in DOMAIN df : \A j \in 1..(k - 1) : df[j] # df[k]}
    IN  [n \in 1..Cardinality(firsts) |->
            df[CHOOSE k \in firsts : Cardinality({j \in firsts : j < k}) = n - 1]]

(***************************************************************************)
(* forecast_missing_subscriptions as a process: the set-up with the global *)
(* model, one pass of the loop per gap (prepare_data_for_prophet, then     *)
(* forecast_gap_with_prophet, then the global re-prediction), the return.  *)
(***************************************************************************)
InitForecast ==
    /\ pc = "fc_call"
    /\ weekly_subscriptions \in ForecastSeries
    /\ forecast_gaps \in ForecastGapLists(MaxForecastGaps)
    /\ flags \in ForecastFlags
    /\ growth_cap = Unused
    /\ prophet_model = Unused
    /\ gap_index = 0
    /\ loop_gap = Unused
    /\ data_before_gap = Unused
    /\ fits = << >>
    /\ forecasted_subscriptions = Unused
    /\ forecasted_near_gap = Unused
    /\ all_forecasts = Unused
    /\ all_gap_forecasts = Unused
    /\ returned = Unused
    /\ error = Unused
    /\ GapsIdle /\ FilterIdle /\ SidIdle /\ LoaderIdle /\ MembersIdle /\ EarliestIdle /\ PlotIdle

\* the series after the set-up: floor and cap are assigned on the argument
SetupSeries ==
    IF flags.train_all_data /\ flags.use_total_growth_cap
    THEN WithCap(weekly_subscriptions, GrowthCap(weekly_subscriptions, flags))
    ELSE weekly_subscriptions

SetupGrowth == IF flags.use_total_growth_cap THEN "logistic" ELSE "linear"

SetupFitFails ==
    flags.train_all_data /\ FitFails(Renamed(SetupSeries), SetupGrowth)

ForecastSetup ==
    /\ pc = "fc_call"
    /\ ~SetupFitFails
    /\ growth_cap' = GrowthCap(weekly_subscriptions, flags)
    /\ weekly_subscriptions' = SetupSeries
    /\ IF flags.train_all_data
       THEN /\ fits' = Append(fits, FitRecord(GlobalModel, Renamed(SetupSeries), SetupGrowth))
            /\ prophet_model' = GlobalModel
       ELSE UNCHANGED <<fits, prophet_model>>
    /\ all_forecasts' = << >>
    /\ all_gap_forecasts' = << >>
    /\ gap_index' = 1
    /\ pc' = "fc_loop"
    /\ UNCHANGED <<forecast_gaps, flags, loop_gap, data_before_gap,
                   forecasted_subscriptions, forecasted_near_gap, returned, error,
                   NotForecastVars>>

\* the fit of the global model raises
ForecastSetupRaise ==
    /\ pc = "fc_call"
    /\ SetupFitFails
    /\ growth_cap' = GrowthCap(weekly_subscriptions, flags)
    /\ weekly_subscriptions' = SetupSeries
    /\ fits' = Append(fits, FitRecord(GlobalModel, Renamed(SetupSeries), SetupGrowth))
    /\ error' = "Prophet.fit"
    /\ pc' = "fc_raised"
    /\ UNCHANGED <<forecast_gaps, flags, prophet_model, gap_index, loop_gap,
                   data_before_gap, forecasted_subscriptions, forecasted_near_gap,
                   all_forecasts, all_gap_forecasts, returned, NotForecastVars>>

\* the training table of the pass, with floor and cap when the cap is used
PassTable_mutant ==
    LET prepared == prepare_data_for_prophet(weekly_subscriptions, forecast_gaps[1].start)
    IN  IF flags.use_weekly_growth_cap THEN WithCap(prepared, growth_cap) ELSE prepared

PassTable ==
    LET prepared == prepare_data_for_prophet(weekly_subscriptions,
                                             forecast_gaps[gap_index].start)
    IN  IF flags.use_weekly_growth_cap THEN WithCap(prepared, growth_cap) ELSE prepared

PassGrowth == IF flags.use_weekly_growth_cap THEN "logistic" ELSE "linear"

PassFit == FitRecord(GapModel(gap_index), PassTable, PassGrowth)

ForecastGap ==
    /\ pc = "fc_loop"
    /\ gap_index <= Len(forecast_gaps)
    /\ ~FitFails(PassTable, PassGrowth)
    /\ FutureBound(flags)
    /\ LET g == forecast_gaps[gap_index]
           future_subscriptions ==
               make_future_dataframe(PassFit.history, forecast_duration(g, flags),
                                     freq(flags))
           forecasted == predict(GapModel(gap_index), future_subscriptions)
           near == forecast_near_gap(forecasted, g, time_duration(flags))
           reforecasted_subscriptions ==
               predict(prophet_model, [k \in DOMAIN forecasted |-> forecasted[k].ds])
       IN  /\ loop_gap' = g
           /\ forecasted_subscriptions' = forecasted
           /\ forecasted_near_gap' = near
           /\ all_gap_forecasts' =
                  IF flags.return_all_gap_forecasts
                  THEN Append(all_gap_forecasts, near)
                  ELSE all_gap_forecasts
           /\ all_forecasts' =
                  IF flags.train_all_data
                  THEN Append(all_forecasts, reforecasted_subscriptions)
                  ELSE Append(all_forecasts, forecasted)
    /\ data_before_gap' = PassTable
    /\ fits' = Append(fits, PassFit)
    /\ gap_index' = gap_index + 1
    /\ UNCHANGED <<pc, weekly_subscriptions, forecast_gaps, flags, growth_cap,
                   prophet_model, returned, error, NotForecastVars>>

\* the fit of the pass raises, or no flag has assigned future_subscriptions
ForecastGapRaise ==
    /\ pc = "fc_loop"
    /\ gap_index <= Len(forecast_gaps)
    /\ FitFails(PassTable, PassGrowth) \/ ~FutureBound(flags)
    /\ loop_gap' = forecast_gaps[gap_index]
    /\ data_before_gap' = PassTable
    /\ fits' = Append(fits, PassFit)
    /\ error' = IF FitFails(PassTable, PassGrowth)
                THEN "Prophet.fit" ELSE "future_subscriptions"
    /\ pc' = "fc_raised"
    /\ UNCHANGED <<weekly_subscriptions, forecast_gaps, flags, growth_cap,
                   prophet_model, gap_index, forecasted_subscriptions,
                   forecasted_near_gap, all_forecasts, all_gap_forecasts, returned,
                   NotForecastVars>>

\* the return statement raises: prophet_model is not assigned without
\* train_all_data, and pd.concat raises on an empty list
ReturnRaises ==
    IF flags.return_prophet_model
    THEN ~flags.train_all_data \/ all_forecasts = << >>
    ELSE IF flags.return_all_gap_forecasts
    THEN all_gap_forecasts = << >>
    ELSE all_forecasts = << >>

ForecastReturn ==
    /\ pc = "fc_loop"
    /\ gap_index > Len(forecast_gaps)
    /\ ~ReturnRaises
    /\ returned' =
           IF flags.return_prophet_model
           THEN [model |-> Some(prophet_model), table |-> concat(all_forecasts)]
           ELSE IF flags.return_all_gap_forecasts
           THEN [model |-> None, table |-> concat(all_gap_forecasts)]
           ELSE [model |-> None, table |-> concat(all_forecasts)]
    /\ pc' = "fc_returned"
    /\ UNCHANGED <<weekly_subscriptions, forecast_gaps, flags, growth_cap,
                   prophet_model, gap_index, loop_gap, data_before_gap, fits,
                   forecasted_subscriptions, forecasted_near_gap, all_forecasts,
                   all_gap_forecasts, error, NotForecastVars>>

ForecastReturnRaise ==
    /\ pc = "fc_loop"
    /\ gap_index > Len(forecast_gaps)
    /\ ReturnRaises
    /\ error' = IF flags.return_prophet_model /\ ~flags.train_all_data
                THEN "prophet_model" ELSE "pd.concat"
    /\ pc' = "fc_raised"
    /\ UNCHANGED <<weekly_subscriptions, forecast_gaps, flags, growth_cap,
                   prophet_model, gap_index, loop_gap, data_before_gap, fits,
                   forecasted_subscriptions, forecasted_near_gap, all_forecasts,
                   all_gap_forecasts, returned, NotForecastVars>>

\* the table returned is plotted: the plot starts by de-duplicating it
PlotForecast ==
    /\ pc = "fc_returned"
    /\ forecast_uniq' = drop_duplicates(returned.table)
    /\ pc' = "fc_plotted"
    /\ UNCHANGED <<ForecastVars, GapsVars, FilterVars, SidVars, LoaderVars, MembersVars,
                   EarliestVars>>

NextForecast ==
    \/ ForecastSetup
    \/ ForecastSetupRaise
    \/ ForecastGap
    \/ ForecastGapRaise
    \/ ForecastReturn
    \/ ForecastReturnRaise
    \/ PlotForecast

SpecForecast == InitForecast /\ [][NextForecast]_vars

(***************************************************************************)
(* Properties of gap detection.                                            *)
(***************************************************************************)
\* the pairs the loop has processed
Processed == 1..(i - 1)

\* days of pair k, from the coverage dates alone
PairDays(k) ==
    to_datetime(logbook_dates[k + 1].startDate) - to_datetime(logbook_dates[k].endDate) - 2

InList(list, k) ==
    \E n \in DOMAIN list :
        /\ list[n].start = to_datetime(logbook_dates[k].endDate) + 1
        /\ list[n].end = to_datetime(logbook_dates[k + 1].startDate) - 1

Scenario2020 ==
    << [startDate |-> <<2020, 1, 1>>, endDate |-> <<2020, 1, 31>>],
       [startDate |-> <<2020, 3, 1>>, endDate |-> <<2020, 3, 31>>] >>

\* C2: every recorded gap is the candidate of a consecutive pair, with
\* start = endDate(k) + 1 day, end = startDate(k+1) - 1 day and
\* days = end - start; the coverage 2020-01-01..2020-01-31,
\* 2020-03-01..2020-03-31 yields exactly one large gap
\* 2020-02-01..2020-02-29 of 28 days and no skipped gap.
C2_Candidate ==
    pc \in {"gap_loop", "gap_count", "gap_label", "gap_done", "gap_raised"} =>
        /\ \A g \in Range(logbook_gaps) \cup Range(skipped_gaps) :
            /\ g.days = g.end - g.start
            /\ \E k \in Processed :
                /\ g.start - 1 = to_datetime(logbook_dates[k].endDate)
                /\ g.end + 1 = to_datetime(logbook_dates[k + 1].startDate)
        /\ (logbook_dates = Scenario2020 /\ i = 2) =>
            /\ logbook_gaps = << [start |-> to_datetime(<<2020, 2, 1>>),
                                  end |-> to_datetime(<<2020, 2, 29>>),
                                  days |-> 28] >>
            /\ skipped_gaps = << >>
            /\ pc = "gap_done" =>
                   /\ Len(logbook_gaps_df) = 1
                   /\ logbook_gaps_df[1].gap_label = <<<<2020, 2, 1>>, <<2020, 2, 29>>, 28>>

\* the 2020 scenario has run through the loop
C2_Witness ==
    /\ pc = "gap_done"
    /\ logbook_dates = Scenario2020
    /\ Len(logbook_gaps) = 1

\* the events of a table dated inside the closed interval of pair k
EventsInside(events, k) ==
    {n \in DOMAIN events :
        /\ events[n].logbook_date # NaT
        /\ events[n].logbook_date >= to_datetime(logbook_dates[k].endDate) + 1
        /\ events[n].logbook_date <= to_datetime(logbook_dates[k + 1].startDate) - 1}

InsideSomeGap(date) ==
    \E n \in DOMAIN gaps : date # NaT /\ gaps[n].start <= date /\ date <= gaps[n].end

\* C3: exclude_gap_events returns exactly the input events whose date is in
\* no gap's closed interval [start, end], events without a date included,
\* in their input order.
C3_ExcludeExact ==
    pc \in {"filter_returned", "filter_done"} =>
        events_nogaps_df = SelectSeq(events_df, LAMBDA e : ~InsideSomeGap(e.logbook_date))

\* an event on a gap's end date was removed and an undated one kept
C3_Witness ==
    /\ pc = "filter_returned"
    /\ \E n \in DOMAIN events_df, g \in DOMAIN gaps :
        /\ events_df[n].logbook_date = gaps[g].end
        /\ gaps[g].start < gaps[g].end
        /\ events_df[n] \notin Range(events_nogaps_df)
    /\ \E e \in Range(events_nogaps_df) : e.logbook_date = NaT
    /\ Len(events_nogaps_df) = 1

\* C4: filtering the filtered events by the same gaps again returns the same
\* events in the same order.
C4_Idempotent ==
    pc = "filter_done" => events_refiltered = events_nogaps_df

\* a filter that removed something was applied twice
C4_Witness ==
    /\ pc = "filter_done"
    /\ Len(events_df) = 2
    /\ Len(events_nogaps_df) = 0

(***************************************************************************)
(* Properties of short_id.                                                 *)
(***************************************************************************)
Slashes(n) == [k \in 1..n |-> "/"]

\* r is the last segment of str that is followed only by slashes
IsFinalSegment(str, r) ==
    /\ "/" \notin Range(r)
    /\ (\E k \in DOMAIN str : str[k] # "/") => r # << >>
    /\ \E n \in 0..Len(str) :
        LET prefix == SubSeq(str, 1, Len(str) - n - Len(r))
        IN  /\ Len(r) + n <= Len(str)
            /\ str = prefix \o r \o Slashes(n)
            /\ (prefix = << >> \/ Last(prefix) = "/")

\* C8: short_id returns the final non-empty path segment of the URI, the
\* same with or without a trailing slash, and None for an absent input.
C8_ShortId ==
    pc = "sid_done" =>
        /\ uri = None => sid_result = None
        /\ uri # None =>
            /\ sid_result # None
            /\ IsFinalSegment(uri[1], sid_result[1])
            /\ sid_result = short_id(Some(Append(uri[1], "/")))
            /\ uri = Some(<<"/", "a", "/", "b">>) => sid_result = Some(<<"b">>)
            /\ uri = Some(<<"a", "/", "b", "/">>) => sid_result = Some(<<"b">>)

\* a URI with a trailing slash gave its last segment
C8_Witness ==
    /\ pc = "sid_done"
    /\ uri = Some(<<"a", "/", "b", "/">>)
    /\ sid_result = Some(<<"b">>)

(***************************************************************************)
(* Properties of get_preprocessed_data.                                    *)
(***************************************************************************)
Known == {"members", "books", "events", "borrow_overrides"}

\* C9: a call naming an unknown dataset is rejected with an error that names
\* every unknown name requested, and nothing is loaded before the rejection,
\* also when known names are requested with it; no such call returns.
C9_UnknownRejected ==
    /\ pc = "ld_raised" =>
        /\ raised # None
        /\ \A k \in DOMAIN datasets :
               datasets[k] \notin Known => datasets[k] \in Range(raised[1])
        /\ Range(raised[1]) \cap Known = {}
        /\ read_csv_calls = << >>
        /\ data = {}
        /\ preprocess_calls = << >>
    /\ (pc \in {"ld_read", "ld_returned", "ld_raised"}
            /\ \E k \in DOMAIN datasets : datasets[k] \notin Known) =>
        pc = "ld_raised"

\* a call with a known and an unknown name was rejected
C9_Witness ==
    /\ pc = "ld_raised"
    /\ datasets = <<"books", "foo">>
    /\ raised = Some(<<"foo">>)

\* C10: with no names the call returns all four datasets with one read
\* each; with known names it returns exactly the requested datasets; events
\* preprocessing runs iff events is loaded, books preprocessing iff books is.
C10_LoaderReturns ==
    pc = "ld_returned" =>
        /\ datasets = << >> =>
            /\ data = Known
            /\ Len(read_csv_calls) = 4
            /\ \A d \in Known :
                   Cardinality({k \in DOMAIN read_csv_calls : read_csv_calls[k] = d}) = 1
        /\ datasets # << >> => data = {datasets[k] : k \in DOMAIN datasets}
        /\ raised = None
        /\ ("preprocess_events_data" \in Range(preprocess_calls)) <=> ("events" \in data)
        /\ ("preprocess_books_data" \in Range(preprocess_calls)) <=> ("books" \in data)

\* the call of the test, books and borrow_overrides, has returned
C10_Witness ==
    /\ pc = "ld_returned"
    /\ datasets = <<"books", "borrow_overrides">>
    /\ preprocess_calls = <<"preprocess_books_data">>

(***************************************************************************)
(* Properties of the member pipeline.                                      *)
(***************************************************************************)
\* the position of a type in the fixed order of the claim
ClaimedOrder(t) ==
    CHOOSE k \in 1..10 :
        <<"Subscription", "Renewal", "Separate Payment", "Borrow", "Purchase",
          "Supplement", "Request", "Gift", "Crossed out", "Reimbursement">>[k] = t

\* f is first among the rows of a table: no row of the same member is dated
\* earlier, and none of the same date has a type earlier in the order
FirstAmong(f, rows) ==
    \A e \in rows :
        e.member_id = f.member_id =>
            /\ f.date <= e.date
            /\ e.date = f.date => ClaimedOrder(f.event_type) <= ClaimedOrder(e.event_type)

\* a member's rows dated on its first date hold both types
SameDayPair(f, rows, t1, t2) ==
    \E e1 \in rows, e2 \in rows :
        /\ e1.member_id = f.member_id /\ e2.member_id = f.member_id
        /\ e1.date = f.date /\ e2.date = f.date
        /\ e1.event_type = t1 /\ e2.event_type = t2

\* C6: among a member's events of the same date the first event is the one
\* whose type is earliest in the fixed order; a same-day Reimbursement and
\* Subscription resolve to Subscription whatever their order in the input;
\* the same holds of the first logbook subscription of each member.
C6_TieBreak ==
    /\ pc \in {"m_first", "m_done"} =>
        \A f \in members_first_events :
            /\ f \in Range(members_added)
            /\ FirstAmong(f, Range(members_added))
            /\ SameDayPair(f, Range(members_added), "Reimbursement", "Subscription")
                   => f.event_type = "Subscription"
    /\ pc = "m_done" =>
        \A f \in subscription_first_events :
            /\ f \in Range(members_added)
            /\ FirstAmong(f, {e \in Range(members_added) :
                                "Logbook" \in e.source_type
                                /\ e.event_type \in {"Subscription", "Renewal"}})

\* a member's Reimbursement came before its same-day Subscription in the input
C6_Witness ==
    /\ pc = "m_first"
    /\ \E f \in members_first_events :
        /\ f.event_type = "Subscription"
        /\ \E e \in Range(members_added) :
            /\ e.member_id = f.member_id
            /\ e.date = f.date
            /\ e.event_type = "Reimbursement"
            /\ e.row < f.row

\* the rows of the table read whose member_uris holds two URIs
SharedRows == {n \in DOMAIN csv_events : ";" \in Range(csv_events[n].member_uris)}

\* C7: an event whose member_uris holds two URIs separated by ";" is in no
\* per-member aggregation: not among the rows the first events and first
\* dates are taken from, not a first date, not a first event, not a first
\* subscription.
C7_SharedExcluded ==
    /\ pc \in {"m_events", "m_first", "m_done"} =>
        /\ \A e \in Range(members_added) : e.row \notin SharedRows
        /\ \A e \in members_first_dates : e.row \notin SharedRows
    /\ pc \in {"m_first", "m_done"} =>
        \A e \in members_first_events : e.row \notin SharedRows
    /\ pc = "m_done" =>
        \A e \in subscription_first_events_nogaps : e.row \notin SharedRows

(***************************************************************************)
(* Properties of the stages as transformations and of the count tables.    *)
(***************************************************************************)
\* C17: no pipeline stage mutates its input collection: the table the caller
\* passed has the same columns and rows after the stage returns as before
\* the call; here, the events table passed to preprocess_events_data.
C17_InputsUnchanged == [][csv_events' = csv_events]_vars

\* C18: a bucket with no contributing event is absent from the weekly and
\* yearly count tables: every row of a periodic count table has total >= 1.
C18_NoEmptyBuckets ==
    /\ pc \in {"m_events", "m_first", "m_done"} =>
        \A b \in DOMAIN newmember_yearly_count : newmember_yearly_count[b].total >= 1
    /\ pc = "m_done" =>
        /\ \A b \in DOMAIN newmember_subscriptions_by_year :
                newmember_subscriptions_by_year[b].total >= 1
        /\ \A b \in DOMAIN newmember_subscriptions_by_week :
                newmember_subscriptions_by_week[b].total >= 1

(***************************************************************************)
(* Properties of the end of the study.                                     *)
(***************************************************************************)
StudyEnd == to_datetime(<<1942, 1, 1>>)

\* the days of the date fields an event has
RowDays(e) ==
    {to_datetime(v) : v \in {e.start_date, e.subscription_purchase_date, e.end_date}
                              \ {NoDate}}

\* an event is dated before the end of the study
Eligible(e) == RowDays(e) # {} /\ SetMin(RowDays(e)) < StudyEnd

\* the members of the events table
MemberIds == {e.member_id : e \in Range(preprocessed_events)}

\* a member with dated events, all of them dated on or after 1942-01-01
OnlyAfterStudy(m) ==
    /\ \E e \in Range(preprocessed_events) : e.member_id = m /\ RowDays(e) # {}
    /\ \A e \in Range(preprocessed_events) : e.member_id = m => ~Eligible(e)

RECURSIVE SumTotals(_)
SumTotals(table) ==
    IF table = << >> THEN 0 ELSE table[1].total + SumTotals(Tail(table))

\* C19: no first date and no first event of a member is dated 1942-01-01 or
\* later; an event dated 1941-12-31 is among the events the reduction takes
\* the first of; a member whose dated events are all dated 1942-01-01 or
\* later has no first date and no first event, and the yearly table counts
\* exactly the members with an event dated before 1942-01-01.
C19_StudyEnd ==
    /\ pc \in {"m_events", "m_first", "m_done"} =>
        /\ \A f \in members_first_dates : f.date < StudyEnd
        /\ \A e \in Range(preprocessed_events) :
                (RowDays(e) # {} /\ SetMin(RowDays(e)) = StudyEnd - 1)
                    => \E a \in Range(members_added) : a.row = e.row
        /\ \A m \in MemberIds :
                OnlyAfterStudy(m) => \A f \in members_first_dates : f.member_id # m
        /\ SumTotals(newmember_yearly_count)
               = Cardinality({m \in MemberIds :
                    \E e \in Range(preprocessed_events) : e.member_id = m /\ Eligible(e)})
    /\ pc \in {"m_first", "m_done"} =>
        /\ \A f \in members_first_events : f.date < StudyEnd
        /\ \A m \in MemberIds :
                OnlyAfterStudy(m) => \A f \in members_first_events : f.member_id # m

\* one member's first event is dated 1941-12-31 and another member has only
\* events dated 1942-01-01 or later
C19_Witness ==
    /\ pc = "m_first"
    /\ \E f \in members_first_events : f.date = StudyEnd - 1
    /\ \E m \in MemberIds : OnlyAfterStudy(m)

(***************************************************************************)
(* Properties of earliest_date.                                            *)
(***************************************************************************)
\* the date values present in the row
PresentDates == {row_dates.start_date, row_dates.subscription_purchase_date,
                 row_dates.end_date} \ {NoDate}

\* C20: earliest_date is the minimum of the values present among start_date,
\* subscription_purchase_date and end_date: it is one of them and no present
\* value is an earlier day; it is absent exactly when all three are absent.
C20_EarliestDate ==
    pc = "ed_returned" =>
        /\ (earliest = NoDate) <=> (PresentDates = {})
        /\ PresentDates # {} =>
            /\ earliest \in PresentDates
            /\ \A v \in PresentDates : to_datetime(earliest) <= to_datetime(v)

\* the start date is present and is not the earliest of the row
C20_Witness ==
    /\ pc = "ed_returned"
    /\ row_dates.start_date # NoDate
    /\ row_dates.end_date # NoDate
    /\ earliest = row_dates.subscription_purchase_date
    /\ to_datetime(earliest) < to_datetime(row_dates.start_date)
    /\ to_datetime(earliest) < to_datetime(row_dates.end_date)

(***************************************************************************)
(* Properties of forecasting.                                              *)
(***************************************************************************)
Cutoff1932 == to_datetime(<<1932, 9, 27>>)

Year1936 == to_datetime(<<1936, 1, 1>>)

\* a point of the series belongs to the training window of a gap
InWindow(r, g) ==
    /\ r.date < g.start
    /\ g.start >= Year1936 => r.date >= Cutoff1932

\* a pass of the loop has just completed: loop_gap, data_before_gap and the
\* two forecasts are those of the same gap
PassDone == pc \in {"fc_loop", "fc_returned"} /\ gap_index > 1

\* a pass of the loop has run, to its end or to an exception: loop_gap and
\* data_before_gap are those of its gap
PassTried ==
    \/ gap_index > 1
    \/ /\ pc = "fc_raised"
       /\ gap_index = 1
       /\ error \in {"Prophet.fit", "future_subscriptions"}

\* the dates of a table with a ds column
DsOf(table) == [k \in DOMAIN table |-> table[k].ds]

\* C11: the training window of a gap is exactly the series points dated
\* strictly before the gap's start; when the gap starts in 1936 or later the
\* points dated before 1932-09-27 are dropped as well (a point dated on the
\* cutoff is kept), and for earlier gaps no cutoff is applied.
C11_TrainingWindow ==
    PassTried =>
        LET expected == SelectSeq(weekly_subscriptions.rows,
                                  LAMBDA r : InWindow(r, loop_gap))
        IN  data_before_gap.rows =
                [k \in DOMAIN expected |->
                    [ds |-> expected[k].date, y |-> expected[k].total]]

\* a gap of 1936: the point dated on the cutoff is kept, an earlier one dropped
C11_Witness ==
    /\ pc = "fc_loop"
    /\ gap_index > 1
    /\ loop_gap.start = Year1936
    /\ \E r \in Range(data_before_gap.rows) : r.ds = Cutoff1932
    /\ \E r \in Range(weekly_subscriptions.rows) : r.date < Cutoff1932

\* C12: an empty training window makes the fit of that gap fail and the call
\* end in an error: nothing is returned and no forecast is listed for the
\* gap; a call that returns had a point in the window of every gap.
C12_EmptyWindowFatal ==
    /\ (PassTried /\ data_before_gap.rows = << >>) =>
        /\ pc = "fc_raised"
        /\ error = "Prophet.fit"
        /\ returned = Unused
        /\ Len(all_forecasts) = gap_index - 1
        /\ Len(all_gap_forecasts) <= gap_index - 1
    /\ pc = "fc_returned" =>
        \A k \in DOMAIN forecast_gaps :
            \E r \in Range(weekly_subscriptions.rows) : InWindow(r, forecast_gaps[k])

\* the series has points before the gap, none of them left by the cutoff
C12_Witness ==
    /\ pc = "fc_raised"
    /\ PassTried
    /\ data_before_gap.rows = << >>
    /\ loop_gap.start >= Year1936
    /\ \E r \in Range(weekly_subscriptions.rows) : r.date < loop_gap.start

WeeklyMode == flags.model_weekly /\ ~flags.model_monthly /\ ~flags.model_daily

\* training data through 2020-01-26 and the gap 2020-02-01..2020-02-29
Scenario2020Forecast ==
    /\ data_before_gap.rows # << >>
    /\ Last(data_before_gap.rows).ds = to_datetime(<<2020, 1, 26>>)
    /\ loop_gap = [start |-> to_datetime(<<2020, 2, 1>>),
                   end |-> to_datetime(<<2020, 2, 29>>), days |-> 28]

\* C13: in weekly mode the prediction axis is the training window's dates
\* followed by exactly ceil(days / 7) + 7 weekly steps after its last date;
\* for training data through 2020-01-26 and the 28-day gap of February 2020
\* that is 11 steps, with dates in March 2020.
C13_WeeklyAxis ==
    (PassDone /\ WeeklyMode) =>
        LET training == DsOf(data_before_gap.rows)
            axis == DsOf(forecasted_subscriptions)
            n == Len(axis) - Len(training)
            last == training[Len(training)]
        IN  /\ SubSeq(axis, 1, Len(training)) = training
            /\ 7 * (n - 7) >= loop_gap.days
            /\ 7 * (n - 8) < loop_gap.days
            /\ \A k \in 1..n :
                LET d == axis[Len(training) + k]
                IN  /\ d % 7 = 0
                    /\ d > last + (7 * (k - 1))
                    /\ d <= last + (7 * k)
            /\ Scenario2020Forecast =>
                /\ n = 11
                /\ \E k \in DOMAIN axis :
                    /\ axis[k] >= to_datetime(<<2020, 3, 1>>)
                    /\ axis[k] <= to_datetime(<<2020, 3, 31>>)

C13_Witness ==
    /\ pc = "fc_loop"
    /\ gap_index > 1
    /\ WeeklyMode
    /\ Scenario2020Forecast
    /\ Len(forecasted_subscriptions) = 13

\* C14: the near-gap slice holds exactly the forecast rows dated in
\* [gap.start - buffer, gap.end + buffer], both ends included (the buffer is
\* one week by default), and the full forecast is kept beside it.
C14_NearGapWindow ==
    PassDone =>
        LET buffer == IF flags.model_monthly THEN 180 ELSE 7
        IN  forecasted_near_gap =
                SelectSeq(forecasted_subscriptions,
                          LAMBDA r : /\ r.ds >= loop_gap.start - buffer
                                     /\ r.ds <= loop_gap.end + buffer)

\* C15: the output modes are exclusive and selected by the caller: every call
\* that fits its models returns one table; asking for the near-gap slices
\* returns the slices, asking for the global model returns the global
\* model's predictions, and otherwise the per-gap forecasts are returned.
C15_OutputModes ==
    /\ pc = "fc_returned" =>
        /\ flags.return_all_gap_forecasts =>
               returned.table = concat(all_gap_forecasts)
        /\ flags.train_all_data =>
               \A r \in Range(returned.table) : r.model.name = "global"
        /\ (~flags.return_all_gap_forecasts /\ ~flags.train_all_data) =>
               \A r \in Range(returned.table) : r.model.name = "gap"
    /\ (pc = "fc_raised" /\ forecast_gaps # << >>) => error # "prophet_model"

\* C16: whenever a model is fit with logistic growth, for a gap or for the
\* whole series, it is fit with floor 0 and with cap the largest total of
\* the weekly series; the cap is never missing.
C16_LogisticCap ==
    \A k \in DOMAIN fits :
        fits[k].growth = "logistic" =>
            /\ fits[k].floor = Some(0)
            /\ fits[k].cap =
                   Some(Some(SetMax({r.total : r \in Range(weekly_subscriptions.rows)})))

(***************************************************************************)
(* Properties of generate_logbooks_events.                                 *)
(***************************************************************************)
\* the row of the events table a returned row comes from
SourceRow(e) == csv_events[e.row]

\* C21: every logbook-sourced event, and no other, is in the table returned;
\* its logbook_date is its subscription_purchase_date when it has one and
\* its start_date otherwise, never its end_date; so logbook_date is set for
\* every logbook event that has one of the two.
C21_LogbookDate ==
    pc = "lb_returned" =>
        /\ {e.row : e \in Range(logbook_events_df)}
               = {k \in DOMAIN csv_events : "Logbook" \in csv_events[k].source_type}
        /\ \A e \in Range(logbook_events_df) :
            LET src == SourceRow(e)
            IN  /\ src.subscription_purchase_date # NoDate =>
                       e.logbook_date = to_datetime(src.subscription_purchase_date)
                /\ (src.subscription_purchase_date = NoDate /\ src.start_date # NoDate) =>
                       e.logbook_date = to_datetime(src.start_date)
                /\ (src.subscription_purchase_date = NoDate /\ src.start_date = NoDate) =>
                       e.logbook_date = NaT
                /\ (src.subscription_purchase_date # NoDate \/ src.start_date # NoDate) =>
                       e.logbook_date # NaT

\* a logbook event with the three dates takes the purchase date, which is
\* neither the start date nor the earlier end date
C21_Witness ==
    /\ pc = "lb_returned"
    /\ \E e \in Range(logbook_events_df) :
        /\ SourceRow(e).start_date # NoDate
        /\ SourceRow(e).end_date # NoDate
        /\ SourceRow(e).subscription_purchase_date # NoDate
        /\ e.logbook_date = to_datetime(SourceRow(e).subscription_purchase_date)
    /\ \E k \in DOMAIN csv_events : "Logbook" \notin csv_events[k].source_type

(***************************************************************************)
(* The first date of each member.                                          *)
(***************************************************************************)
\* the dates of the events of member m that generate_member_events keeps
MemberDays(m) == {a.date : a \in {r \in Range(members_added) : r.member_id = m}}

\* C22: the first date recorded for a member is the earliest date of the
\* member's dated events before 1942, in whatever order the events table
\* lists them.
C22_FirstDateIsEarliest ==
    pc \in {"m_events", "m_first", "m_done"} =>
        \A f \in members_first_dates : f.date = SetMin(MemberDays(f.member_id))

(***************************************************************************)
(* The de-duplicated table of the slices near the gaps.                    *)
(***************************************************************************)
\* the table returned is the concatenation of the slices near the gaps
NearGapTableReturned == flags.return_all_gap_forecasts /\ ~flags.return_prophet_model

\* C23: in the de-duplicated concatenation of the slices near the gaps no
\* two rows have the same timestamp: a timestamp in the slices of two gaps
\* is kept once, with the prediction of the earlier gap.
C23_OnePredictionPerTimestamp ==
    (pc = "fc_plotted" /\ NearGapTableReturned) =>
        \A j, k \in DOMAIN forecast_uniq :
            forecast_uniq[j].ds = forecast_uniq[k].ds => j = k

(***************************************************************************)
(* The forecast of one gap as a function of the series, the flags and the  *)
(* gap.                                                                    *)
(***************************************************************************)
\* the dates of the training window of gap g
TrainingDates(g) ==
    {r.date : r \in {x \in Range(weekly_subscriptions.rows) : InWindow(x, g)}}

\* the prediction axis of gap g
GapAxis(g) == make_future_dataframe(TrainingDates(g), forecast_duration(g, flags), freq(flags))

\* the block of gap number k in the table returned: the slice near the gap,
\* the re-prediction by the global model, or the forecast of the gap's model
GapBlock(k) ==
    LET g == forecast_gaps[k]
    IN  IF NearGapTableReturned
        THEN forecast_near_gap(predict(GapModel(k), GapAxis(g)), g, time_duration(flags))
        ELSE IF flags.train_all_data THEN predict(GlobalModel, GapAxis(g))
        ELSE predict(GapModel(k), GapAxis(g))

\* C24: the forecast of a gap is determined by the series, the flags and
\* that gap, whatever the other gaps of the list and whatever was processed
\* before it: the model of gap k is fitted on the training window of gap k,
\* and the table returned is the blocks of the gaps in the order of the list.
C24_GapIndependence ==
    pc \in {"fc_returned", "fc_plotted"} =>
        /\ Len(all_forecasts) = Len(forecast_gaps)
        /\ \A k \in DOMAIN forecast_gaps :
            \E n \in DOMAIN fits :
                /\ fits[n].model = GapModel(k)
                /\ fits[n].history = TrainingDates(forecast_gaps[k])
        /\ returned.table = concat([k \in DOMAIN forecast_gaps |-> GapBlock(k)])

\* two gaps with different training windows were forecast, and the table
\* returned holds rows of both
C24_Witness ==
    /\ pc = "fc_returned"
    /\ Len(forecast_gaps) = 2
    /\ TrainingDates(forecast_gaps[1]) # TrainingDates(forecast_gaps[2])
    /\ \E r \in Range(returned.table) : r.ds > SetMax(TrainingDates(forecast_gaps[2]))
    /\ \E r \in Range(returned.table) : r.ds < SetMax(TrainingDates(forecast_gaps[2]))

(***************************************************************************)
(* The intervals that gap detection discards.                              *)
(***************************************************************************)
\* the calendar days strictly between the end of period k and the start of
\* period k + 1
UncoveredDays(k) ==
    (to_datetime(logbook_dates[k].endDate) + 1)
        ..(to_datetime(logbook_dates[k + 1].startDate) - 1)

Discarded(k) == ~InList(logbook_gaps, k) /\ ~InList(skipped_gaps, k)

\* C25 as stated: a pair is discarded only when no calendar day lies
\* strictly between its two periods; a pair with an uncovered day between
\* its periods is recorded as a skipped or a large gap.
C25_DiscardedOnlyWithoutUncoveredDay ==
    pc \in {"gap_loop", "gap_count", "gap_label", "gap_done", "gap_raised"} =>
        \A k \in Processed : Discarded(k) <=> UncoveredDays(k) = {}

\* C25, amended: a pair is discarded exactly when at most one calendar day
\* lies strictly between its two periods (days <= 0: the periods overlap,
\* are adjacent, or leave a single day uncovered); a pair with two or more
\* uncovered days between its periods is recorded as a skipped or a large
\* gap.
C25_DiscardedUpToOneUncoveredDay ==
    pc \in {"gap_loop", "gap_count", "gap_label", "gap_done", "gap_raised"} =>
        \A k \in Processed : Discarded(k) <=> Cardinality(UncoveredDays(k)) <= 1

\* a pair that leaves exactly one day uncovered was processed and discarded
C25_Witness ==
    /\ pc = "gap_loop"
    /\ \E k \in Processed : Cardinality(UncoveredDays(k)) = 1 /\ Discarded(k)

(***************************************************************************)
(* The weekly count of the gap-free logbook events.                        *)
(***************************************************************************)
\* the gap-free events that have a date
DatedNoGaps == {e \in Range(logbook_events_nogaps) : e.logbook_date # NaT}

\* the week labelled b (a Sunday) holds day d
InWeek(d, b) == d <= b /\ b - d <= 6

\* C26: the weekly table has one row per Sunday; every gap-free event with a
\* date is counted in exactly one row, the one of the Sunday on or after its
\* date (its own date when it is dated on a Sunday); the totals add up to
\* the number of dated gap-free events, none of which is dated inside a
\* large gap.
C26_WeeklyConservation ==
    pc \in {"gap_label", "gap_done"} =>
        /\ \A b \in Range(logbooks_weekly_count) : b.date % 7 = 0
        /\ \A j, k \in DOMAIN logbooks_weekly_count :
               logbooks_weekly_count[j].date = logbooks_weekly_count[k].date => j = k
        /\ \A b \in Range(logbooks_weekly_count) :
               b.total = Cardinality({e \in DatedNoGaps : InWeek(e.logbook_date, b.date)})
        /\ \A e \in DatedNoGaps :
               \E b \in Range(logbooks_weekly_count) : InWeek(e.logbook_date, b.date)
        /\ SumTotals(logbooks_weekly_count) = Cardinality(DatedNoGaps)
        /\ \A e \in DatedNoGaps :
               \A g \in Range(logbook_gaps) :
                   ~(g.start <= e.logbook_date /\ e.logbook_date <= g.end)

\* an event dated on Sunday 2020-02-09 is counted in the row of that day,
\* and an event dated inside a large gap was left out
C26_Witness ==
    /\ pc = "gap_done"
    /\ \E e \in DatedNoGaps :
        /\ e.logbook_date = to_datetime(<<2020, 2, 9>>)
        /\ \E b \in Range(logbooks_weekly_count) : b.date = e.logbook_date /\ b.total = 1
    /\ \E e \in Range(logbook_events_df) :
        /\ e.logbook_date # NaT
        /\ \E g \in Range(logbook_gaps) : g.start <= e.logbook_date /\ e.logbook_date <= g.end

(***************************************************************************)
(* The new-member subscription series: first events, then the gap filter.  *)
(***************************************************************************)
\* the logbook subscriptions and renewals of member m
LogbookSubscriptions(m) ==
    {e \in Range(member_events) : e.member_id = m /\ IsLogbookSubscription(e)}

\* e is first among them in (date, event type) order
IsFirstSubscription(e, m) ==
    /\ e \in LogbookSubscriptions(m)
    /\ \A x \in LogbookSubscriptions(m) :
        \/ e.date < x.date
        \/ e.date = x.date /\ TypeCode(e.event_type) <= TypeCode(x.event_type)

InsideNewmemberGap(d) ==
    \E n \in DOMAIN newmember_gaps : newmember_gaps[n].start <= d /\ d <= newmember_gaps[n].end

\* C27: each member has at most one event in the new-member subscription
\* series, the first of the member's logbook subscriptions and renewals in
\* (date, event type) order; a member whose first such event is dated inside
\* a large gap has no event in the series and is counted in no weekly or
\* yearly row, whatever later subscriptions the member has outside the gaps.
C27_FirstEventThenGapFilter ==
    pc = "m_done" =>
        /\ \A a, b \in subscription_first_events_nogaps :
               a.member_id = b.member_id => a = b
        /\ \A a \in subscription_first_events_nogaps :
               /\ IsFirstSubscription(a, a.member_id)
               /\ ~InsideNewmemberGap(a.date)
        /\ \A e \in Range(member_events) :
               (IsFirstSubscription(e, e.member_id) /\ InsideNewmemberGap(e.date)) =>
                   \A a \in subscription_first_events_nogaps : a.member_id # e.member_id
        /\ \A e \in Range(member_events) :
               (IsFirstSubscription(e, e.member_id) /\ ~InsideNewmemberGap(e.date)) =>
                   \E a \in subscription_first_events_nogaps :
                       a.member_id = e.member_id /\ a.date = e.date
        /\ SumTotals(newmember_subscriptions_by_week)
               = Cardinality({a.member_id : a \in subscription_first_events_nogaps})
        /\ SumTotals(newmember_subscriptions_by_year)
               = Cardinality({a.member_id : a \in subscription_first_events_nogaps})

\* a member's first subscription is dated inside the gap and a later one
\* outside it; the member is in no row of the series
C27_Witness ==
    /\ pc = "m_done"
    /\ \E e, x \in Range(member_events) :
        /\ IsFirstSubscription(e, e.member_id)
        /\ InsideNewmemberGap(e.date)
        /\ x \in LogbookSubscriptions(e.member_id)
        /\ x.date > e.date
        /\ ~InsideNewmemberGap(x.date)
        /\ \A a \in subscription_first_events_nogaps : a.member_id # e.member_id
        /\ SumTotals(newmember_subscriptions_by_week) = 0

(***************************************************************************)
(* The order of the large gaps.                                            *)
(***************************************************************************)
\* C28: for coverage periods that end no earlier than they start, taken in
\* ascending order of start date, the large gaps are in strictly ascending
\* order and pairwise disjoint: each gap starts before it ends, and each
\* gap starts after the gap before it ends.
C28_GapsAscending ==
    pc \in {"gap_loop", "gap_count", "gap_label", "gap_done", "gap_raised"} =>
        /\ \A n \in DOMAIN logbook_gaps : logbook_gaps[n].start < logbook_gaps[n].end
        /\ \A n \in 1..(Len(logbook_gaps) - 1) :
               logbook_gaps[n].end < logbook_gaps[n + 1].start
        /\ \A m, n \in DOMAIN logbook_gaps :
               m # n => \/ logbook_gaps[m].end < logbook_gaps[n].start
                        \/ logbook_gaps[n].end < logbook_gaps[m].start

\* two large gaps were found, around a coverage period of a single day
C28_Witness ==
    /\ pc = "gap_done"
    /\ Len(logbook_gaps) = 2
    /\ \E k \in DOMAIN logbook_dates : logbook_dates[k].startDate = logbook_dates[k].endDate

(***************************************************************************)
(* Large gaps and the whole reference list.                                *)
(***************************************************************************)
\* C29: no date of a large gap is covered by a coverage period of the
\* reference list: the closed interval of every large gap is disjoint from
\* the closed interval of every period, adjacent to the gap or not.
C29_GapsUncovered ==
    pc \in {"gap_loop", "gap_count", "gap_label", "gap_done", "gap_raised"} =>
        \A g \in Range(logbook_gaps) :
            \A c \in Range(logbook_dates) :
                \/ g.end < to_datetime(c.startDate)
                \/ to_datetime(c.endDate) < g.start

(***************************************************************************)
(* The flag combinations of forecast_missing_subscriptions.                *)
(***************************************************************************)
\* every gap of the list has a training window of two points or more, so
\* that no fit fails for lack of data
WindowsNonEmpty ==
    \A k \in DOMAIN forecast_gaps : Cardinality(TrainingDates(forecast_gaps[k])) >= 2

\* C30: for a gap list that is not empty and whose training windows are not
\* empty, every combination of the flags returns a table: the call never
\* ends in an exception for a model or a prediction axis that was not
\* assigned.
C30_EveryFlagCombinationReturns ==
    (forecast_gaps # << >> /\ WindowsNonEmpty) =>
        ~(pc = "fc_raised" /\ error \in {"prophet_model", "future_subscriptions"})

=============================================================================
